---- MODULE Spec2Model ----
(***************************************************************************)
(* PotentialEvapotranspiration (landlab/components/pet/                    *)
(* potential_evapotranspiration_field.py) as a state machine.              *)
(*                                                                         *)
(* Floating point quantities are fixed-point integers:                     *)
(*   temperatures            0.1 deg C       (17.5 deg C  = 175)            *)
(*   vapour pressures, slope 1 Pa            (0.066 kPa   = 66)             *)
(*   radiation               0.1 W/m^2       (180 W/m^2   = 1800)           *)
(*   heights                 1 mm            (0.084 m     = 84)             *)
(*   wind speed, LAI, r_s, r_a  0.01         (3.12 m/s    = 312)            *)
(*   air density             1 g/m^3                                        *)
(*   current time            0.01 year       (0.5         = 50)             *)
(*   PET rates, output field 0.001 mm                                       *)
(* exp, log and cos are evaluated by their series in the same fixed point. *)
(***************************************************************************)
EXTENDS Integers, Sequences, FiniteSets, TLC

(***************************************************************************)
(* Bounds of the model.                                                    *)
(***************************************************************************)
\* node columns of the 3-row raster mesh: NumCols - 2 cells, 3 * NumCols nodes
NumCols == 4
\* configuration changes (setter calls, attribute writes) after construction
MaxChanges == 2

(***************************************************************************)
(* The mesh: a raster of 3 node rows; its cells are the interior nodes.    *)
(***************************************************************************)
number_of_nodes == 3 * NumCols
number_of_cells == NumCols - 2
Cells == 1 .. number_of_cells
Nodes == 1 .. number_of_nodes
\* node (1-based) at the centre of cell c
node_at_cell(c) == NumCols + c + 1

(***************************************************************************)
(* Scalar-or-field values: None, a number, an ndarray, or the ValueError   *)
(* numpy raises when two arrays cannot be broadcast together.              *)
(***************************************************************************)
None == [k |-> "none"]
Num(x) == [k |-> "num", n |-> x]
Arr(s) == [k |-> "arr", v |-> s]
BroadcastError == [k |-> "err"]
IsNone(x) == x.k = "none"
IsNum(x) == x.k = "num"
IsArr(x) == x.k = "arr"
IsErr(x) == x.k = "err"
Size(x) == Len(x.v)
Full(n, val) == Arr([i \in 1 .. n |-> val])

\* numpy elementwise application of a unary function
Map1(F(_), a) ==
  CASE IsNum(a) -> Num(F(a.n))
    [] IsArr(a) -> Arr([i \in 1 .. Size(a) |-> F(a.v[i])])
    [] OTHER -> BroadcastError

\* numpy elementwise application of a binary function, with broadcasting of
\* scalars; two arrays of different sizes cannot be broadcast
Map2(F(_, _), a, b) ==
  CASE IsNum(a) /\ IsNum(b) -> Num(F(a.n, b.n))
    [] IsNum(a) /\ IsArr(b) -> Arr([i \in 1 .. Size(b) |-> F(a.n, b.v[i])])
    [] IsArr(a) /\ IsNum(b) -> Arr([i \in 1 .. Size(a) |-> F(a.v[i], b.n)])
    [] IsArr(a) /\ IsArr(b) /\ Size(a) = Size(b) ->
         Arr([i \in 1 .. Size(a) |-> F(a.v[i], b.v[i])])
    [] OTHER -> BroadcastError

\* the elements of a number or array
Elems(a) ==
  CASE IsNum(a) -> {a.n}
    [] IsArr(a) -> {a.v[i] : i \in 1 .. Size(a)}
    [] OTHER -> {}

Add(x, y) == x + y
Sub(x, y) == x - y
Gt(x, y) == IF x > y THEN 1 ELSE 0
\* np.any of an elementwise comparison
np_any(a) == 1 \in Elems(a)

(***************************************************************************)
(* Fixed-point elementary functions.                                       *)
(***************************************************************************)
RECURSIVE ExpSeries(_, _, _)
ExpSeries(x, term, k) ==
  IF k > 12 THEN 0
  ELSE term + ExpSeries(x, (term * x) \div (k * 1000), k + 1)
\* 1000 * exp(x / 1000)
ExpMilli(x) == ExpSeries(x, 1000, 1)

RECURSIVE Halvings(_)
Halvings(r) == IF r >= 2000 THEN 1 + Halvings(r \div 2) ELSE 0
RECURSIVE Mantissa(_)
Mantissa(r) == IF r >= 2000 THEN Mantissa(r \div 2) ELSE r
\* 1000 * ln(m / 1000) for 1000 <= m < 2000, by the atanh series
LnMantissa(m) ==
  LET z == ((m - 1000) * 1000) \div (m + 1000)
      z2 == (z * z) \div 1000
      z3 == (z * z2) \div 1000
      z5 == (z3 * z2) \div 1000
      z7 == (z5 * z2) \div 1000
  IN 2 * (z + z3 \div 3 + z5 \div 5 + z7 \div 7)
\* 1000 * ln(r / 1000) for r > 0
LnMilli(r) ==
  IF r >= 1000 THEN (Halvings(r) * 693147) \div 1000 + LnMantissa(Mantissa(r))
  ELSE 0 - ((Halvings(1000000 \div r) * 693147) \div 1000
            + LnMantissa(Mantissa(1000000 \div r)))

\* 1000 * cos(x / 1000) for 0 <= x <= pi / 2
CosSeries(x) ==
  LET x2 == (x * x) \div 1000
      x4 == (x2 * x2) \div 1000
      x6 == (x4 * x2) \div 1000
      x8 == (x6 * x2) \div 1000
  IN 1000 - x2 \div 2 + x4 \div 24 - x6 \div 720 + x8 \div 40320
\* 1000 * cos(x / 1000) for -2 pi <= x <= 2 pi
CosMilli(x) ==
  LET a == IF x < 0 THEN 0 - x ELSE x
      b == IF a > 3142 THEN 6283 - a ELSE a
  IN IF b > 1571 THEN 0 - CosSeries(3142 - b) ELSE CosSeries(b)

(***************************************************************************)
(* Program constants: the constructor's defaults and fixed coefficients.   *)
(***************************************************************************)
priestley_taylor_const == 126
relative_humidity == 65
albedo == 60
latent_heat_of_vaporization == 2834
psychometric_const == 66
latitude == 34
lt == 0
nd == 365
delta_d == 5
Rl == 100
Zm == 2000
DefaultZd == 84
DefaultZo == 12
DefaultTavg == 175
k2 == 16
ca == 122
\* the value numpy gives a division of a positive number by zero, as an r_a
Inf == -1

VALID_METHODS == {"PriestleyTaylor", "Cosine", "NetRadEqPE", "PenmanMonteith"}

\* Exceptions: the type and the words of the message
NoError == [type |-> "none", msg |-> <<>>]
ValueError(words) == [type |-> "ValueError", msg |-> words]
BroadcastFailure == ValueError(<<"operands could not be broadcast together">>)

\* variant: the membership test is inverted
assert_method_is_valid_inverted(method) ==
  IF method \in VALID_METHODS
  THEN ValueError(<<method, ": Invalid method name">>)
  ELSE NoError

\* _assert_method_is_valid: the exception raised for `method`, if any
assert_method_is_valid(method) ==
  IF method \notin VALID_METHODS
  THEN ValueError(<<method, ": Invalid method name">>)
  ELSE NoError

(***************************************************************************)
(* The Radiation sub-model (landlab.components.Radiation).  The component  *)
(* only sets its _current_time, _Tmax, _Tmin, _A and _latitude, calls its   *)
(* update() and reads its net flux, its ratio to a flat surface and _P.    *)
(* update() recomputes the outputs from the fields as they are when it     *)
(* runs; `seen` records those fields.  The formulas stand for the          *)
(* radiation physics: a net flux that grows with the daily temperature     *)
(* range, the season and the absorbed fraction, and a per-cell terrain     *)
(* ratio that varies with the season.                                      *)
(***************************************************************************)
RadInputs(r) ==
  [current_time |-> r.current_time, Tmax |-> r.Tmax, Tmin |-> r.Tmin,
   A |-> r.A, latitude |-> r.latitude]

\* seasonal factor, 20 .. 40, highest at mid-year
Season(t, lat) ==
  ((30 + (10 * CosMilli((6283 * ((t % 100) - 50)) \div 100)) \div 1000)
     * (90 - lat)) \div 56

CellValue(a, c) == IF IsArr(a) THEN a.v[c] ELSE a.n

RadNetFlux(r) ==
  Arr([c \in Cells |->
         ((100 - r.A) * (CellValue(r.Tmax, c) - CellValue(r.Tmin, c))
            * Season(r.current_time, r.latitude)) \div 100])

RadRatio(r) ==
  Arr([c \in Cells |-> 100 + (c - 1) * (Season(r.current_time, r.latitude) - 30)])

\* atmospheric pressure, 0.1 kPa
RadPressure == 1013

Radiation(time, lat, alb, tmax, tmin) ==
  [current_time |-> time, Tmax |-> tmax, Tmin |-> tmin, A |-> alb,
   latitude |-> lat, net_flux |-> Full(number_of_cells, 0),
   ratio |-> Full(number_of_cells, 0), P |-> RadPressure, seen |-> None]

RadUpdate(r) ==
  [r EXCEPT !.net_flux = RadNetFlux(r), !.ratio = RadRatio(r),
            !.seen = RadInputs(r)]

(***************************************************************************)
(* Field Resolver and Input Validator.                                     *)
(***************************************************************************)
\* map_node_to_cell: the value of each cell's node
map_node_to_cell(values) == Arr([c \in Cells |-> values[node_at_cell(c)]])

NoFields ==
  [min_temperature |-> None, max_temperature |-> None, leaf_area_index |-> None]

\* _process_field: <<the scratch copy's node fields, the resolved value>>
process_field(copy, field, field_name) ==
  IF IsArr(field) /\ Size(field) = number_of_nodes
  THEN <<[copy EXCEPT ![field_name] = field], map_node_to_cell(field.v)>>
  ELSE <<copy, field>>

\* variant: the fields are resolved before the range is checked
validate_temperature_range_late(copy, min_temp, max_temp) ==
  LET lo == process_field(copy, min_temp, "min_temperature")
      hi == process_field(lo[1], max_temp, "max_temperature")
      gt == Map2(Gt, lo[2], hi[2])
      e == IF IsNone(min_temp) \/ IsNone(max_temp)
           THEN ValueError(<<"Tmin and Tmax are required fields">>)
           ELSE IF IsErr(gt) THEN BroadcastFailure
           ELSE IF np_any(gt) THEN ValueError(<<"Tmin must be less than Tmax">>)
           ELSE NoError
  IN IF e # NoError
     THEN [error |-> e, copy |-> hi[1], Tmin |-> min_temp, Tmax |-> max_temp]
     ELSE [error |-> e, copy |-> hi[1], Tmin |-> lo[2], Tmax |-> hi[2]]

\* the check of _validate_temperature_range: the exception raised, if any
temperature_range_error(min_temp, max_temp) ==
  IF IsNone(min_temp) \/ IsNone(max_temp)
  THEN ValueError(<<"Tmin and Tmax are required fields">>)
  ELSE LET gt == Map2(Gt, min_temp, max_temp)
       IN IF IsErr(gt) THEN BroadcastFailure
          ELSE IF np_any(gt) THEN ValueError(<<"Tmin must be less than Tmax">>)
          ELSE NoError

\* _validate_temperature_range: the exception, the scratch copy and the
\* resolved minimum and maximum
validate_temperature_range(copy, min_temp, max_temp) ==
  LET e == temperature_range_error(min_temp, max_temp)
      lo == process_field(copy, min_temp, "min_temperature")
      hi == process_field(lo[1], max_temp, "max_temperature")
  IN IF e # NoError
     THEN [error |-> e, copy |-> copy, Tmin |-> min_temp, Tmax |-> max_temp]
     ELSE [error |-> NoError, copy |-> hi[1], Tmin |-> lo[2], Tmax |-> hi[2]]

\* _validate_lai
validate_lai(copy, lai) == process_field(copy, lai, "leaf_area_index")

\* _fix_values: the object `field` refers to after the call.  An array is
\* changed in place; a number is rebound in the callee only.
fix_values(field, error_value, fixed_value) ==
  IF IsArr(field)
  THEN Arr([i \in 1 .. Size(field) |->
              IF field.v[i] = error_value THEN fixed_value ELSE field.v[i]])
  ELSE field

(***************************************************************************)
(* Radiation Synchronizer: _UpdateRad.                                     *)
(* A world w is [pet, etpRad, gridCopy, at_cell, error]: the component's   *)
(* attributes, its sub-model, the node fields of its scratch mesh copy,    *)
(* the mesh's output field and the exception raised (NoError if none).     *)
(***************************************************************************)
Half(x) == x \div 2
Tenth(x) == x \div 10
Times07(x) == (x * 7) \div 10
Times01(x) == x \div 10

\* saturation vapour pressure, Pa: 0.6108 exp(17.27 T / (237.7 + T)) kPa
SatVapourPressure(T) == (6108 * ExpMilli((17270 * T) \div (2377 + T))) \div 10000
ActualVapourPressure(T) == (SatVapourPressure(T) * relative_humidity) \div 100
\* slope of the saturation vapour pressure curve, Pa / deg C
SlopeSatVapour(es, T) == (40980 * es) \div (((2373 + T) * (2373 + T)) \div 10)
\* air density, g/m^3: 3.47 P / (273.3 + T) * 1000
DeriveAirDensity(P, T) == (347 * P * 10) \div (2733 + T)

\* variant: the sub-model is updated before the current values are pushed
SyncRadStale(rad, current_time, Tmax, Tmin, a, phi) ==
  [RadUpdate(rad) EXCEPT !.current_time = current_time, !.Tmax = Tmax,
                         !.Tmin = Tmin, !.A = a, !.latitude = phi]

\* lines 463-469: push the current values into the sub-model, then update it
SyncRad(rad, current_time, Tmax, Tmin, a, phi) ==
  RadUpdate([rad EXCEPT !.current_time = current_time, !.Tmax = Tmax,
                        !.Tmin = Tmin, !.A = a, !.latitude = phi])

\* lines 494-495: the default average temperature is the mean of the extremes
ResolveTavg(Tavg, Tmax, Tmin) ==
  IF ~IsArr(Tavg) /\ Tavg = Num(DefaultTavg)
  THEN Map1(Half, Map2(Add, Tmax, Tmin))
  ELSE Tavg

\* lines 499-501: the working temperature
ResolveInpTemp(Tavg, temperatures) ==
  IF ~IsNone(temperatures) THEN temperatures ELSE Tavg

\* lines 544-560: the exception raised for a geometry array of the wrong size
GeometrySizeError(zveg, zo, zd) ==
  LET cell_sz == number_of_cells
      bad(name, z) ==
        ValueError(<<name, " field dimensions must match grid dimensions, ",
                     name, " size was ", ToString(Size(z)),
                     " while grid size was ", ToString(cell_sz)>>)
  IN CASE IsArr(zveg) /\ Size(zveg) # cell_sz -> bad("Zveg", zveg)
       [] ~(IsArr(zveg) /\ Size(zveg) # cell_sz)
          /\ IsArr(zo) /\ Size(zo) # cell_sz -> bad("Zo", zo)
       [] ~(IsArr(zveg) /\ Size(zveg) # cell_sz)
          /\ ~(IsArr(zo) /\ Size(zo) # cell_sz)
          /\ IsArr(zd) /\ Size(zd) # cell_sz -> bad("Zd", zd)
       [] OTHER -> NoError

\* lines 533-540, 563-565: <<zd, zo>> after the default value adjustment
DefaultGeometry(zveg, zo, zd) ==
  LET is_zveg_defined == ~IsNone(zveg)
      is_zo_default == IF IsArr(zo) THEN FALSE ELSE zo = Num(DefaultZo)
      is_zd_default == IF IsArr(zd) THEN FALSE ELSE zd = Num(DefaultZd)
  IN IF is_zveg_defined /\ is_zo_default /\ is_zd_default
     THEN <<Map1(Times07, zveg), Map1(Times01, zveg)>>
     ELSE <<zd, zo>>

\* lines 571-575: the air density after the cycle
ResolveAirDensity(pa, P, inp_temp) ==
  IF IsNone(pa) THEN Map1(LAMBDA T : DeriveAirDensity(P, T), inp_temp) ELSE pa

UpdateRad(w) ==
  LET p == w.pet
      t == validate_temperature_range(w.gridCopy, p.Tmin, p.Tmax)
      l == validate_lai(t.copy, p.LAI)
      rad == SyncRad(w.etpRad, p.current_time, t.Tmax, t.Tmin, p.a, p.phi)
      input_rad == IF IsNone(p.user_radiation) THEN rad.net_flux
                   ELSE p.user_radiation
      Tavg == ResolveTavg(p.Tavg, t.Tmax, t.Tmin)
      inp_temp == ResolveInpTemp(Tavg, p.temperatures)
      es == Map1(SatVapourPressure, inp_temp)
      p1 == [p EXCEPT !.Tmin = t.Tmin, !.Tmax = t.Tmax, !.LAI = l[2],
                      !.input_rad = input_rad, !.G = Map1(Tenth, input_rad),
                      !.Tavg = Tavg, !.inp_temp = inp_temp, !.es = es,
                      !.ea = Map1(ActualVapourPressure, t.Tmin),
                      !.delta = Map2(SlopeSatVapour, es, inp_temp)]
      ge == GeometrySizeError(p.zveg, p.zo, p.zd)
      zz == DefaultGeometry(p.zveg, p.zo, p.zd)
      p2 == [p1 EXCEPT !.zd = zz[1], !.zo = zz[2],
                       !.pa = ResolveAirDensity(p.pa, rad.P, inp_temp)]
  IN IF t.error # NoError THEN [w EXCEPT !.error = t.error]
     ELSE IF ge # NoError
     THEN [w EXCEPT !.pet = p1, !.etpRad = rad, !.gridCopy = l[1], !.error = ge]
     ELSE [w EXCEPT !.pet = p2, !.etpRad = rad, !.gridCopy = l[1],
                    !.error = NoError]

(***************************************************************************)
(* PET Model Dispatcher and Output Writer: update.                         *)
(***************************************************************************)
Max0(x) == IF x > 0 THEN x ELSE 0
Mul(x, y) == x * y

\* input_rad / pwhv, 0.001 mm
RadEquivalent(rad) == (rad * 10000) \div latent_heat_of_vaporization

\* _NetRadEqPE
NetRadEqPE(p) == Map1(RadEquivalent, p.input_rad)

\* _PriestleyTaylor
PriestleyTaylor(p) ==
  LET frac == Map1(LAMBDA d : (d * 1000) \div (d + psychometric_const), p.delta)
      E == Map1(RadEquivalent, p.input_rad)
  IN Map2(LAMBDA f, e : Max0((((priestley_taylor_const * f) \div 100) * e) \div 1000),
          frac, E)

\* aerodynamic resistance: ln((zm - zd) / zo)^2 / (k^2 vz); a zero wind speed
\* divides by zero
AerodynamicResistance(zm, zd, zo, vz) ==
  LET ln == Map2(LAMBDA d, o : LnMilli(((zm - d) * 1000) \div o), zd, zo)
      ln2 == Map1(LAMBDA x : (x * x) \div 1000, ln)
  IN Map2(LAMBDA n, v : IF v = 0 THEN Inf ELSE (n * 1000) \div (k2 * v), ln2, vz)

DivideBy(x, r) == IF r = Inf THEN 0 ELSE x \div r

\* _PenmanMonteith: <<the attributes after the call, the rate>>
PenmanMonteith(p) ==
  LET deltaTerm == Map1(Tenth, Map2(Mul, p.delta, Map2(Sub, p.input_rad, p.G)))
      LAIa == Map1(Half, p.LAI)
      rs == Map1(LAMBDA a : (p.rl * 10000) \div a, LAIa)
      vz == fix_values(p.vz, 0, 100)
      ra == AerodynamicResistance(p.zm, p.zd, p.zo, vz)
      vaporTerm == Map2(DivideBy,
                        Map2(Mul, Map1(LAMBDA d : ca * d, p.pa),
                             Map2(Sub, p.es, p.ea)),
                        ra)
      rs_ra == Map2(DivideBy, Map1(LAMBDA s : s * 1000, rs), ra)
      denom == Map1(LAMBDA d : (latent_heat_of_vaporization * d) \div 100,
                    Map2(Add, p.delta,
                         Map1(LAMBDA q : (psychometric_const * (1000 + q)) \div 1000,
                              rs_ra)))
      ETp == Map2(LAMBDA n, d : (n * 1000) \div d,
                  Map2(Add, deltaTerm, vaporTerm), denom)
  IN <<[p EXCEPT !.vz = vz, !.ra = ra], ETp>>

\* the Cosine method, lines 382-395
Cosine(p) ==
  LET J == (((p.current_time % 100) * 365) \div 100)
      angle == (6283 * (2 * J - 2 * lt - nd)) \div (2 * nd)
  IN Num(Max0(p.TmaxF_mean * 1000 + (delta_d * CosMilli(angle)) \div 2))

\* lines 372-395: <<the attributes after the dispatch, _PET_value>>
Dispatch(p) ==
  CASE p.method = "PriestleyTaylor" -> <<p, PriestleyTaylor(p)>>
    [] p.method = "PenmanMonteith" -> PenmanMonteith(p)
    [] p.method = "NetRadEqPE" -> <<p, NetRadEqPE(p)>>
    [] p.method = "Cosine" -> <<p, Cosine(p)>>

\* variant: the rate is added to the field (+= for =)
WriteOutputAccumulates(field, PET) == Map2(Add, field, PET)

\* lines 397-402: the output field after at_cell[...][:] = PET
WriteOutput(field, PET) ==
  IF IsNum(PET) THEN Full(Size(field), PET.n) ELSE PET

\* lines 372-402, entered when _UpdateRad has returned
ComputeAndWrite(w1) ==
  LET d == Dispatch(w1.pet)
      PET == Map2(LAMBDA v, r : (v * r) \div 100, d[2], w1.etpRad.ratio)
  IN IF w1.error # NoError THEN w1
     ELSE IF IsErr(PET) \/ (IsArr(PET) /\ Size(PET) # Size(w1.at_cell))
     THEN [w1 EXCEPT !.pet = d[1], !.error = BroadcastFailure]
     ELSE [w1 EXCEPT !.pet = d[1], !.at_cell = WriteOutput(w1.at_cell, PET)]

\* variant: the output field is reset before the synchronization validates
UpdateClearsFirst(w) ==
  ComputeAndWrite(UpdateRad([w EXCEPT !.at_cell = Full(Size(w.at_cell), 0)]))

\* update()
Update(w) == ComputeAndWrite(UpdateRad(w))

(***************************************************************************)
(* __init__                                                                *)
(***************************************************************************)
\* the attributes set by lines 204-231 and 237-244
Attributes(args, LAI, Tmin, Tmax, Tavg) ==
  [method |-> args.method, current_time |-> args.current_time,
   zm |-> Zm, zd |-> args.Zd, zo |-> args.Zo, zveg |-> args.Zveg,
   vz |-> args.Vwind, rl |-> Rl, user_radiation |-> args.radiation,
   a |-> albedo, pa |-> args.air_density, phi |-> latitude, LAI |-> LAI,
   TmaxF_mean |-> args.MeanTmaxF, temperatures |-> args.temperatures,
   Tmin |-> Tmin, Tmax |-> Tmax, Tavg |-> Tavg,
   input_rad |-> None, G |-> None, inp_temp |-> None, es |-> None,
   ea |-> None, delta |-> None, ra |-> None]

\* lines 241-244
InitialTavg(Tavg, Tmin, Tmax) ==
  IF ~IsArr(Tavg) /\ Tavg = Num(DefaultTavg)
  THEN Map1(Half, Map2(Add, Tmin, Tmax))
  ELSE Tavg

\* initialize_output_fields: the output field, created with value 0
initialize_output_fields(field) ==
  IF IsNone(field) THEN Full(number_of_cells, 0) ELSE field

\* variant: the constructor ends with a full update()
ConstructorSyncUpdates(w) == Update(w)

\* line 260: the synchronization that ends the constructor
ConstructorSync(w) == UpdateRad(w)

\* the world when __init__ returns or raises
Construct(at_cell0, args) ==
  LET l == validate_lai(NoFields, args.LAI)
      me == assert_method_is_valid(args.method)
      out == initialize_output_fields(at_cell0)
      t == validate_temperature_range(l[1], args.Tmin, args.Tmax)
      p == Attributes(args, l[2], t.Tmin, t.Tmax,
                      InitialTavg(args.Tavg, t.Tmin, t.Tmax))
      rad == Radiation(args.current_time, latitude, albedo, t.Tmax, t.Tmin)
  IN IF me # NoError
     THEN [pet |-> None, etpRad |-> None, gridCopy |-> l[1],
           at_cell |-> at_cell0, error |-> me]
     ELSE IF t.error # NoError
     THEN [pet |-> None, etpRad |-> None, gridCopy |-> t.copy,
           at_cell |-> out, error |-> t.error]
     ELSE ConstructorSync([pet |-> p, etpRad |-> rad, gridCopy |-> t.copy,
                           at_cell |-> out, error |-> NoError])

(***************************************************************************)
(* The caller: the arguments it constructs the component with and the      *)
(* values it assigns afterwards.                                           *)
(***************************************************************************)
NodeField(base, step) == Arr([n \in Nodes |-> base + step * (n % 2)])
CellField(base, step) == Arr([c \in Cells |-> base + step * (c % 2)])
\* an array that has neither the size of the cells nor that of the nodes
OddField(val) == Full(number_of_cells + 1, val)

\* the constructor's defaults, lines 103-131
Defaults ==
  [method |-> "Cosine", air_density |-> None, LAI |-> Num(288),
   MeanTmaxF |-> 12, current_time |-> 50, Tmin |-> Num(100), Tmax |-> Num(250),
   Tavg |-> Num(DefaultTavg), Zd |-> Num(DefaultZd), Zo |-> Num(DefaultZo),
   Zveg |-> None, Vwind |-> Num(312), temperatures |-> None, radiation |-> None]

ArgNames == DOMAIN Defaults

ArgValues ==
  [method |-> VALID_METHODS \cup {"Hargreaves"},
   air_density |-> {None, Num(1200)},
   LAI |-> {Num(288), NodeField(200, 100)},
   MeanTmaxF |-> {12, 1},
   current_time |-> {50},
   Tmin |-> {Num(100), Num(0), Num(300), NodeField(100, 20), NodeField(260, 20)},
   Tmax |-> {Num(250), Num(100), NodeField(250, 20)},
   Tavg |-> {Num(DefaultTavg), Num(120)},
   Zd |-> {Num(DefaultZd), OddField(700)},
   Zo |-> {Num(DefaultZo), OddField(100)},
   Zveg |-> {None, Num(1000), CellField(500, 500), OddField(1000)},
   Vwind |-> {Num(312), Num(0), CellField(0, 200)},
   temperatures |-> {None, CellField(150, 40), NodeField(150, 40)},
   radiation |-> {None, Num(0)}]

\* the argument records that change at most k of the arguments S of `base`
RECURSIVE Variants(_, _, _)
Variants(base, S, k) ==
  IF k = 0 \/ S = {} THEN {base}
  ELSE LET n == CHOOSE x \in S : TRUE
       IN Variants(base, S \ {n}, k)
          \cup UNION {Variants([base EXCEPT ![n] = v], S \ {n}, k - 1) :
                        v \in ArgValues[n] \ {Defaults[n]}}

\* the argument records the caller constructs with: a method and at most one
\* other explicit argument
Arguments ==
  UNION {Variants([Defaults EXCEPT !.method = m], ArgNames \ {"method"}, 1)
           \cup {[Defaults EXCEPT !.method = m, !.LAI = NodeField(200, 100),
                                  !.Tmin = Num(300)]} :
           m \in ArgValues.method}

VARIABLES
  pc,        \* "new": not constructed; "ready": constructed; "failed": __init__ raised
  pet,       \* the component's attributes
  etpRad,    \* the Radiation sub-model, None until built
  gridCopy,  \* the node fields written to the scratch mesh copy
  at_cell,   \* the mesh's surface__potential_evapotranspiration_rate, None until created
  error,     \* the exception the last call raised
  given,     \* the values the caller has supplied: the arguments, then its assignments
  run,       \* update() calls made in a row just now, counted to 2
  called,    \* update() has been called
  changes    \* assignments made since construction

vars == <<pc, pet, etpRad, gridCopy, at_cell, error, given, run, called, changes>>

World == [pet |-> pet, etpRad |-> etpRad, gridCopy |-> gridCopy,
          at_cell |-> at_cell, error |-> error]

Init ==
  /\ pc = "new"
  /\ pet = None
  /\ etpRad = None
  /\ gridCopy = NoFields
  /\ at_cell = None
  /\ error = NoError
  /\ given = None
  /\ run = 0
  /\ called = FALSE
  /\ changes = 0

\* PotentialEvapotranspiration(grid, **args)
init(args) ==
  /\ pc = "new"
  /\ \E w \in {Construct(at_cell, args)} :
        /\ pc' = IF w.error = NoError THEN "ready" ELSE "failed"
        /\ pet' = IF w.error = NoError THEN w.pet ELSE None
        /\ etpRad' = w.etpRad
        /\ gridCopy' = w.gridCopy
        /\ at_cell' = w.at_cell
        /\ error' = w.error
  /\ given' = args
  /\ UNCHANGED <<run, called, changes>>

construct == pc = "new" /\ \E args \in Arguments : init(args)

\* an assignment to a property or attribute of the component
Assign(attr, arg, v) ==
  /\ pc = "ready"
  /\ changes < MaxChanges
  /\ pet' = [pet EXCEPT ![attr] = v]
  /\ given' = [given EXCEPT ![arg] = v]
  /\ error' = NoError
  /\ run' = 0
  /\ changes' = changes + 1
  /\ UNCHANGED <<pc, etpRad, gridCopy, at_cell, called>>

\* the Tmin setter
SetTmin == \E v \in {None, Num(200), NodeField(100, 20)} :
             Assign("Tmin", "Tmin", v)
\* the Tmax setter
SetTmax == \E v \in {Num(300)} : Assign("Tmax", "Tmax", v)
\* the Tavg setter
SetTavg == \E v \in {Num(220)} : Assign("Tavg", "Tavg", v)
\* the radiation setter
SetRadiation == \E v \in {Num(0)} :
                  Assign("user_radiation", "radiation", v)
\* PET._current_time = v
SetCurrentTime == \E v \in {0} : Assign("current_time", "current_time", v)
\* PET._zveg = v
SetZveg == \E v \in {Num(500), OddField(500)} : Assign("zveg", "Zveg", v)

\* PET.update()
update ==
  /\ pc = "ready"
  /\ \E w \in {Update(World)} :
        /\ pet' = w.pet
        /\ etpRad' = w.etpRad
        /\ gridCopy' = w.gridCopy
        /\ at_cell' = w.at_cell
        /\ error' = w.error
  /\ run' = IF run < 2 THEN run + 1 ELSE run
  /\ called' = TRUE
  /\ UNCHANGED <<pc, given, changes>>

Next ==
  \/ construct
  \/ SetTmin
  \/ SetTmax
  \/ SetTavg
  \/ SetRadiation
  \/ SetCurrentTime
  \/ SetZveg
  \/ update

Spec == Init /\ [][Next]_vars

(***************************************************************************)
(* Properties.                                                             *)
(***************************************************************************)
Zeros == Full(number_of_cells, 0)
Ready == pc = "ready"
\* update() has just returned normally
Updated == pc = "ready" /\ run >= 1 /\ error = NoError

\* C1: after the constructor returns and before the first call to update(),
\* every entry of the output field is 0, although the constructor has run
\* one radiation synchronization.
OutputZeroBeforeFirstUpdate == (Ready /\ ~called) => at_cell = Zeros
\* the constructor has returned, its synchronization has computed a non-zero
\* net radiation, and update() has not been called
C1_Witness ==
  /\ Ready /\ ~called
  /\ etpRad.seen = RadInputs(etpRad)
  /\ \E x \in Elems(pet.input_rad) : x > 0

\* C2: an update() that directly follows an update() that returned, with no
\* assignment in between, returns too and writes the same output values.
UpdateIdempotent ==
  [][(Updated /\ update) => (error' = NoError /\ at_cell' = at_cell)]_vars
\* two successive update() calls have returned, with a vegetation height or a
\* wind array whose zeros were replaced, and a non-zero output
C2_Witness ==
  /\ Updated /\ run = 2
  /\ ~IsNone(pet.zveg) \/ pet.vz # given.Vwind
  /\ \E x \in Elems(at_cell) : x > 0

\* C3: an update() call that raises leaves the output field as it was.
FailedUpdateKeepsOutput ==
  [][(update /\ error' # NoError) => at_cell' = at_cell]_vars
\* update() has raised after an earlier update() wrote a non-zero output
C3_Witness ==
  /\ Ready /\ run >= 1 /\ error # NoError
  /\ \E x \in Elems(at_cell) : x > 0

TminAboveTmax == ValueError(<<"Tmin must be less than Tmax">>)
\* __init__ raised because the minimum temperature exceeds the maximum
TemperatureRangeRejected == pc = "failed" /\ error = TminAboveTmax

\* C4 as stated: when construction fails because Tmin exceeds Tmax, the
\* output field has not been created on the mesh and no node field has been
\* written to the scratch mesh copy.
RangeFailureTouchesNoField ==
  TemperatureRangeRejected => (IsNone(at_cell) /\ gridCopy = NoFields)
\* C4 as amended: when construction fails because Tmin exceeds Tmax, the
\* output field has already been created and is all zeros, no temperature
\* field has been written to the scratch mesh copy and the radiation
\* sub-model has not been built.
RangeFailureBeforeTemperatureFields ==
  TemperatureRangeRejected =>
    /\ at_cell = Zeros
    /\ IsNone(gridCopy.min_temperature) /\ IsNone(gridCopy.max_temperature)
    /\ IsNone(etpRad)
\* construction with a node-shaped minimum temperature above the maximum has
\* failed
C4_Witness == TemperatureRangeRejected /\ IsArr(given.Tmin)

\* the constructor was called with a method outside the valid set
InvalidMethodGiven == pc # "new" /\ given.method \notin VALID_METHODS
Mentions(e, word) == \E i \in 1 .. Len(e.msg) : e.msg[i] = word

\* C6 as stated: construction with an unknown method name fails with an error
\* that enumerates the valid method names, before the output field is created
\* and before the radiation sub-model is built.
InvalidMethodErrorListsValidSet ==
  InvalidMethodGiven =>
    /\ pc = "failed" /\ error.type = "ValueError"
    /\ \A m \in VALID_METHODS : Mentions(error, m)
    /\ IsNone(at_cell) /\ IsNone(etpRad)
\* C6 as amended: construction with an unknown method name fails with an error
\* that names the rejected method, before the output field is created and
\* before the radiation sub-model is built.
InvalidMethodRejectedFirst ==
  InvalidMethodGiven =>
    /\ pc = "failed"
    /\ error = ValueError(<<given.method, ": Invalid method name">>)
    /\ IsNone(at_cell) /\ IsNone(etpRad)
\* construction with the method "Hargreaves" has failed
C6_Witness == InvalidMethodGiven /\ pc = "failed" /\ Mentions(error, "Hargreaves")

\* C7: when update() has returned, the sub-model holds the component's
\* current time, validated temperature extremes, albedo and latitude, its
\* outputs were recomputed from exactly those values, and the working
\* radiation is that net flux unless the caller supplied one.
RadiationSynchronized ==
  Updated =>
    /\ etpRad.current_time = pet.current_time
    /\ etpRad.Tmin = pet.Tmin /\ etpRad.Tmax = pet.Tmax
    /\ etpRad.A = pet.a /\ etpRad.latitude = pet.phi
    /\ etpRad.seen = RadInputs(etpRad)
    /\ etpRad.net_flux = RadNetFlux(etpRad) /\ etpRad.ratio = RadRatio(etpRad)
    /\ IsNone(pet.user_radiation) => pet.input_rad = etpRad.net_flux
\* update() has returned after the caller changed the current time and a
\* temperature extreme
C7_Witness ==
  /\ Updated
  /\ pet.current_time # Defaults.current_time
  /\ given.Tmax # Defaults.Tmax
  /\ IsNone(pet.user_radiation)

NonNegative(a) == \A x \in Elems(a) : x >= 0
\* a temperature the caller supplied lies between the validated extremes
WithinExtremes(T) ==
  /\ ~IsErr(Map2(Gt, pet.Tmin, T)) /\ ~np_any(Map2(Gt, pet.Tmin, T))
  /\ ~IsErr(Map2(Gt, T, pet.Tmax)) /\ ~np_any(Map2(Gt, T, pet.Tmax))
\* the temperatures the caller supplied are consistent with each other
AdmissibleTemperatures ==
  /\ IsNone(given.temperatures) \/ WithinExtremes(given.temperatures)
  /\ given.Tavg = Num(DefaultTavg) \/ WithinExtremes(given.Tavg)

\* C5: after an update() that returned, with a working radiation >= 0, a
\* flat-surface ratio >= 0 and admissible other inputs, every output value
\* is non-negative, whichever the method.
OutputNonNegative ==
  (Updated /\ NonNegative(pet.input_rad) /\ NonNegative(etpRad.ratio)
     /\ AdmissibleTemperatures)
    => NonNegative(at_cell)

\* C8: when a vegetation height is set and the caller supplied neither Zo nor
\* Zd, an update() that returned has used Zd = 0.7 Zveg and Zo = 0.1 Zveg for
\* the current Zveg.
GeometryFollowsZveg ==
  (Updated /\ ~IsNone(pet.zveg)
     /\ given.Zo = Num(DefaultZo) /\ given.Zd = Num(DefaultZd))
    => (pet.zd = Map1(Times07, pet.zveg) /\ pet.zo = Map1(Times01, pet.zveg))

\* C9: an update() that returned has used as working temperature the
\* temperatures field if one was given, else the mean of the current minimum
\* and maximum if the caller left Tavg at its default, else the Tavg supplied.
WorkingTemperatureResolved ==
  Updated =>
    pet.inp_temp =
      IF ~IsNone(pet.temperatures) THEN pet.temperatures
      ELSE IF given.Tavg = Num(DefaultTavg)
           THEN Map1(Half, Map2(Add, pet.Tmin, pet.Tmax))
           ELSE given.Tavg

\* C10: when the caller supplied no air density, an update() that returned
\* has used the air density derived from the sub-model's pressure and the
\* working temperature of that cycle.
AirDensityFollowsTemperature ==
  (Updated /\ IsNone(given.air_density))
    => pet.pa = Map1(LAMBDA T : DeriveAirDensity(etpRad.P, T), pet.inp_temp)


\* C11: after a PenmanMonteith update() that returned, the wind speed the
\* aerodynamic resistance was computed with has no zero, as a number or in
\* any entry of an array, and no resistance is the result of a division by
\* zero.
ZeroWindReplaced ==
  (Updated /\ pet.method = "PenmanMonteith")
    => (0 \notin Elems(pet.vz) /\ Inf \notin Elems(pet.ra))


\* a plain number or an array with one entry per cell
CellShaped(a) == IsNum(a) \/ (IsArr(a) /\ Size(a) = number_of_cells)
\* the synchronization has just run to its end: __init__ has returned, or
\* update() has, and nothing was assigned since
Synchronized == Ready /\ error = NoError /\ (run >= 1 \/ changes = 0)

\* C12: after a synchronization that succeeded, each physical input of the
\* formulas (Tmin, Tmax, LAI, the temperatures field, Zveg, Zo, Zd, the wind
\* speed, the air density) is a number or an array of cell length; the
\* optional ones may be absent.
ValidatedInputsCellShaped ==
  Synchronized
    => /\ \A a \in {pet.Tmin, pet.Tmax, pet.LAI, pet.zo, pet.zd, pet.vz,
                    pet.pa} : CellShaped(a)
       /\ \A a \in {pet.temperatures, pet.zveg} : IsNone(a) \/ CellShaped(a)
====
